---------------------------- MODULE Spec2Model ----------------------------
(***************************************************************************)
(* NMFF-AFM: the iteration loop of nmff_afm.py with the sensitivity        *)
(* analysis (module/slope_of_gradient.py), the mode selection and the      *)
(* termination rules (module/stop_iter.py).                                *)
(*                                                                         *)
(* Similarities (CC) are integers in an arbitrary unit.  Everything the    *)
(* code divides by a positive quantity common to both sides of a           *)
(* comparison is kept multiplied by it: rolling averages are kept times 5, *)
(* fitted slopes times the sum of the squared amplitudes.                  *)
(***************************************************************************)
EXTENDS Integers, Sequences, FiniteSets, TLC

VARIABLES
    mode_selection,            \* params['mode_selection']
    termination_criterion,     \* nmff_afm.py:67
    iteration_to_stop,         \* params['num_iterations']
    combined_amplitude,        \* params['combined_amplitude']
    start_from_this_mode,      \* params['first_mode']
    stop_at_this_mode,         \* params['last_mode']
    pc,                        \* position in the main program
    i,                         \* loop variable of nmff_afm.py:120
    deformed_times,
    stop_bool,
    initial_conformation_iter, \* name of the structure of this iteration
    work_directory_iter,       \* stem of the folder of this iteration
    sheet,                     \* rows of the overall log, header first
    df_pcc,                    \* sensitivity table of this iteration
    num_of_largest_mode,
    deform_amplitude_1,
    returncode,                \* result.returncode of the last afmize run
    error,                     \* exception that ended the run, "none" if none
    folders,                   \* iteration folders that exist
    pdb_files,                 \* structure files written by the final move of each iteration
    deformed_pdbs,             \* files <frequency>#<dq>.pdb in the folder 1st of this iteration
    pool_tasks,                \* run_afmize tasks of the pool: those given to it, those not yet completed
    fit,                       \* outcome of curve_fit in the trajectory analysis
    result_step,               \* <<step>> once scoring_conformations returned, <<>> before
    target,                    \* the file of the target image
    initial,                   \* the file of the image compared with it
    rescale,                   \* how the values of initial were made from those of another image
    cc                         \* result of calculation_correlation_pearson_tsv_normalized

vars == <<mode_selection, termination_criterion, iteration_to_stop, combined_amplitude,
          start_from_this_mode, stop_at_this_mode, pc, i, deformed_times, stop_bool,
          initial_conformation_iter, work_directory_iter, sheet, df_pcc,
          num_of_largest_mode, deform_amplitude_1, returncode, error, folders, pdb_files,
          deformed_pdbs, pool_tasks, fit, result_step, target, initial, rescale, cc>>

\* the state of the trajectory analysis and of one similarity calculation
analysis == <<fit, result_step>>
images == <<target, initial, rescale, cc>>

config == <<mode_selection, termination_criterion, iteration_to_stop, combined_amplitude,
            start_from_this_mode, stop_at_this_mode>>

-----------------------------------------------------------------------------
(* Bounds of the model *)

MaxBudget == 2      \* iteration budgets 0..MaxBudget
MaxAmp == 2         \* combined amplitudes 1..MaxAmp
MaxMode == 2        \* mode ranges within 1..MaxMode
MaxCC == 2          \* similarity of the current structure in MinCC..MaxCC
MaxRows == 6        \* records already in the log when a judgement is studied alone
MaxSweepAmp == 10   \* combined amplitudes 1..MaxSweepAmp when a sweep is studied alone
MaxPixel == 3       \* values 0..MaxPixel of the images before they are rescaled
MaxScale == 2       \* factors 1..MaxScale of a rescaled image
MaxFlatBudget == 1  \* iteration budgets 0..MaxFlatBudget when flat tables are among the sweeps
Mantissa == 5       \* bits of the significand of the floats of the model

(* Program constants *)

Slack == 10         \* nmff_afm.py:120  range(num_iterations + 10)
Window == 5         \* stop_iter.py:114 read_pre_iter_cc_and_avrg(excel_file_path, 5) / 5

MinCC == 0 - 1
CCValues == MinCC..MaxCC
NaN == 1000         \* float('nan'): 0.0 / abs(0.0) on numpy floats, nmff_afm.py:177

Strategies == {"slope", "maxcc", "maxcc_force_move"}
Criteria == {"numeric", "average", "single"}

Abs(x) == IF x < 0 THEN 0 - x ELSE x

RECURSIVE SumOver(_, _)
SumOver(S, f) ==
    IF S = {} THEN 0
    ELSE LET x == CHOOSE y \in S : TRUE IN f[x] + SumOver(S \ {x}, f)

-----------------------------------------------------------------------------
(* Floating-point addition.  The similarities are Python floats and their
   sums are rounded to the nearest float, ties to even.  The floats of the
   model are the integers with a significand of Mantissa bits: every
   integer below 2^Mantissa in absolute value, every second one below
   2^(Mantissa + 1), every fourth one below 2^(Mantissa + 2), and so on. *)

\* the distance of the floats around x
RECURSIVE Quantum(_)
Quantum(x) == IF Abs(x) < 2^Mantissa THEN 1 ELSE 2 * Quantum(Abs(x) \div 2)

\* the float nearest to x
fl(x) ==
    LET q == Quantum(x)
        lo == (x \div q) * q
        r == x - lo
    IN  IF 2 * r < q THEN lo
        ELSE IF 2 * r > q THEN lo + q
        ELSE IF (lo \div q) % 2 = 0 THEN lo ELSE lo + q

\* the unit of the quotients below: 1 / Scale
Scale == 2^(Mantissa + 2)

\* the float nearest to x / n, in units of 1 / Scale
fl_div(x, n) ==
    LET num == x * Scale
        q == Quantum(Abs(num) \div n)
        t == n * q
        lo == num \div t
        r == num - lo * t
    IN  IF 2 * r < t THEN lo * q
        ELSE IF 2 * r > t THEN (lo + 1) * q
        ELSE IF lo % 2 = 0 THEN lo * q ELSE (lo + 1) * q

-----------------------------------------------------------------------------
(* module/check_list.py *)

\* Faulty variant: the suffix of a name that has one is not incremented.
filename_of_next_iter_no_increment(previous_name) ==
    IF Len(previous_name) = 2
    THEN previous_name
    ELSE <<previous_name[1], 1>>

\* A name is <<base>> (no '#') or <<base, k>> standing for base#s<k>.
filename_of_next_iter(previous_name) ==
    IF Len(previous_name) = 2
    THEN <<previous_name[1], previous_name[2] + 1>>
    ELSE <<previous_name[1], 1>>

\* Path(previous_dir).stem is renamed, the parent is kept.
folder_of_next_iter(previous_dir) == filename_of_next_iter(previous_dir)

\* The overall log when there is no such file
NoLog == <<>>

\* nmff_afm.py:69: f"{initial_conformation_name}#s0"
folder_name(initial_conformation_name) == Append(initial_conformation_name, 0)

\* Faulty variant: the overall log is not looked for.
check_folders_and_print_log_unchecked(paths, log, name, env_set, initial_found, target_found, reference_found) ==
    IF ~env_set THEN "SystemExit"
    ELSE IF ~initial_found THEN "FileExistsError"
    ELSE IF Len(name) > 1 THEN "ValueError"
    ELSE IF ~target_found THEN "FileExistsError"
    ELSE IF ~reference_found THEN "FileExistsError"
    ELSE IF <<"All_conformation">> \in paths THEN "FileExistsError"
    ELSE IF folder_name(name) \in paths THEN "FileExistsError"
    ELSE "none"

\* lines 109-157: the error of the first check that fails, "none" when all
\* pass.  paths are the entries of the upper folder, log the overall log
\* file; a name holds '#' when it has a suffix.  reference_found is true
\* when no reference is asked for.  The upper folder is the current
\* directory (nmff_afm.py:40), which exists.
check_folders_and_print(paths, log, name, env_set, initial_found, target_found, reference_found) ==
    IF ~env_set THEN "SystemExit"
    ELSE IF ~initial_found THEN "FileExistsError"
    ELSE IF Len(name) > 1 THEN "ValueError"
    ELSE IF ~target_found THEN "FileExistsError"
    ELSE IF ~reference_found THEN "FileExistsError"
    ELSE IF <<"All_conformation">> \in paths THEN "FileExistsError"
    ELSE IF log # NoLog THEN "FileExistsError"
    ELSE IF folder_name(name) \in paths THEN "FileExistsError"
    ELSE "none"


-----------------------------------------------------------------------------
(* module/modes_generator.py *)

\* Faulty variant: the half is rounded up.
one_half_rounded_up(amplitude) == (amplitude + 1) \div 2

\* int(amplitude / 2), for amplitude > 0
one_half(amplitude) == amplitude \div 2

\* the amplitudes of line 103, in the order of the loop
dq_of_sweep(amplitude) ==
    <<0 - amplitude, 0 - one_half(amplitude), 0, one_half(amplitude), amplitude>>

\* the calls of deformation_rtb made by lines 102-108, in order, as
\* <<frequency, dq>>
deformation_calls(amplitude, start_mode, end_mode) ==
    [n \in 1..(5 * (end_mode - start_mode + 1)) |->
        <<start_mode + ((n - 1) \div 5), dq_of_sweep(amplitude)[((n - 1) % 5) + 1]>>]

\* the files the first n calls leave
files_after(calls, n) == {calls[k] : k \in 1..n}

\* The files <frequency>#<dq>.pdb left in the folder: a file written twice
\* under one name (dq = one_half = 0) is one file.
generate_deformed_conformation(amplitude, start_mode, end_mode) ==
    (start_mode..end_mode) \X
        {0 - amplitude, 0 - one_half(amplitude), 0, one_half(amplitude), amplitude}

-----------------------------------------------------------------------------
(* module/slope_of_gradient.py *)

\* A table maps <<mode, dq>> to cc, one row per rendered file <mode>#<dq>.tsv.
Rows(df) == DOMAIN df

\* Least-squares slope of cc against dq over the rows of one mode, times the
\* sum of the squared dq of the sweep.  The dq of a sweep are symmetric about
\* 0, so the slope is sum(dq * cc) / sum(dq * dq).
slope_calculation(df, mode) ==
    LET dqs == {k[2] : k \in {r \in Rows(df) : r[1] = mode}}
    IN  SumOver(dqs, [dq \in dqs |-> dq * df[<<mode, dq>>]])

\* df_slopes of process_data_tsv: one row per mode of the range
df_slopes_of(df, start_mode, end_mode) ==
    [m \in start_mode..end_mode |-> slope_calculation(df, m)]

\* The rows that sort_values(by cc, ascending=False) can leave first: the sort
\* is pandas' default quicksort over rows met in os.listdir order, so any row
\* of greatest cc can come first.
first_by_cc(df, rows) == {k \in rows : \A j \in rows : df[k] >= df[j]}

\* The rows that sort_values(by abs_slope, ascending=False) can leave first
\* (default quicksort, not stable), as [mode, slope]
first_by_abs_slope(slopes) ==
    {[mode |-> m, slope |-> slopes[m]] :
        m \in {m \in DOMAIN slopes : \A n \in DOMAIN slopes : Abs(slopes[m]) >= Abs(slopes[n])}}

\* Faulty variant: the slopes are ranked signed, not by absolute value.
find_largest_slopes_signed(slopes) ==
    {[mode |-> m, slope |-> slopes[m]] :
        m \in {m \in DOMAIN slopes : \A n \in DOMAIN slopes : slopes[m] >= slopes[n]}}

\* find_largest_slopes reads iloc[0] and iloc[1]: IndexError under two rows
find_largest_slopes_raises(slopes) == Cardinality(DOMAIN slopes) < 2
find_largest_slopes(slopes) == first_by_abs_slope(slopes)

-----------------------------------------------------------------------------
(* module/slope_of_gradient.py, the similarity of two images *)

Sign(x) == IF x > 0 THEN 1 ELSE IF x < 0 THEN 0 - 1 ELSE 0

RECURSIVE GCD(_, _)
GCD(a, b) == IF b = 0 THEN a ELSE GCD(b, a % b)

SeqSum(f) == SumOver(DOMAIN f, f)
SeqMin(f) == CHOOSE x \in {f[k] : k \in DOMAIN f} : \A k \in DOMAIN f : x <= f[k]
SeqMax(f) == CHOOSE x \in {f[k] : k \in DOMAIN f} : \A k \in DOMAIN f : x >= f[k]

\* np.loadtxt: the array of the values, axes of length 1 squeezed out
read_tsv(file) ==
    [shape |-> IF file.rows = 1 /\ file.cols = 1 THEN <<>>
               ELSE IF file.rows = 1 THEN <<file.cols>>
               ELSE IF file.cols = 1 THEN <<file.rows>>
               ELSE <<file.rows, file.cols>>,
     data |-> file.data]

\* (mat - mat.min()) / mat.max(), flattened: the numerators, and the one
\* denominator all the values share
normalized_flatten(mat) ==
    [num |-> [k \in DOMAIN mat.data |-> mat.data[k] - SeqMin(mat.data)],
     den |-> SeqMax(mat.data)]

\* a result of pearsonr: "score" with the sign of the coefficient and its
\* square as a fraction in lowest terms, "nan", or "ValueError"
Score(status, sign, num, den) == [status |-> status, sign |-> sign, num |-> num, den |-> den]

\* scipy.stats.pearsonr on two vectors of fractions.  It raises ValueError
\* on vectors of different lengths or shorter than 2.  A division by a zero
\* maximum has filled a vector with inf and nan, and a constant vector has
\* no deviation: the coefficient is nan.
pearsonr(x, y) ==
    LET n == Len(x.num)
        sxy == n * SeqSum([k \in 1..n |-> x.num[k] * y.num[k]]) - SeqSum(x.num) * SeqSum(y.num)
        sxx == n * SeqSum([k \in 1..n |-> x.num[k] * x.num[k]]) - SeqSum(x.num) * SeqSum(x.num)
        syy == n * SeqSum([k \in 1..n |-> y.num[k] * y.num[k]]) - SeqSum(y.num) * SeqSum(y.num)
        g == GCD(sxy * sxy, sxx * syy)
    IN  IF n # Len(y.num) THEN Score("ValueError", 0, 0, 1)
        ELSE IF n < 2 THEN Score("ValueError", 0, 0, 1)
        ELSE IF x.den = 0 \/ y.den = 0 THEN Score("nan", 0, 0, 1)
        ELSE IF sxx = 0 \/ syy = 0 THEN Score("nan", 0, 0, 1)
        ELSE Score("score", Sign(sxy) * Sign(x.den) * Sign(y.den),
                   (sxy * sxy) \div g, (sxx * syy) \div g)

\* Faulty variant: the shapes of the two matrices are compared first.
calculation_correlation_shapes_checked(target_file, initial_file) ==
    LET pmat == read_tsv(target_file)
        imat == read_tsv(initial_file)
    IN  IF pmat.shape # imat.shape THEN Score("ValueError", 0, 0, 1)
        ELSE pearsonr(normalized_flatten(pmat), normalized_flatten(imat))

calculation_correlation_pearson_tsv_normalized(target_file, initial_file) ==
    LET pmat == read_tsv(target_file)
        imat == read_tsv(initial_file)
    IN  pearsonr(normalized_flatten(pmat), normalized_flatten(imat))

-----------------------------------------------------------------------------
(* nmff_afm.py:176-193, the mode selection; each gives the set of moves the
   branch can assign to (num_of_largest_mode, deform_amplitude_1) *)

Move(mode, amp) == [mode |-> mode, amp |-> amp]

\* Faulty variant: the sign of a zero slope is 0 (numpy.sign).
signed_amplitude_of_sign(first_slope, amplitude) ==
    IF first_slope = 0 THEN 0
    ELSE IF first_slope > 0 THEN amplitude ELSE 0 - amplitude

\* first_slope / abs(first_slope) * combined_amplitude
signed_amplitude(first_slope, amplitude) ==
    IF first_slope = 0 THEN NaN
    ELSE IF first_slope > 0 THEN amplitude ELSE 0 - amplitude

slope_selection(slopes, amplitude) ==
    {Move(r.mode, signed_amplitude(r.slope, amplitude)) : r \in find_largest_slopes(slopes)}

\* Faulty variant: the table is sorted ascending.
maxcc_selection_ascending(df) ==
    {Move(k[1], k[2]) : k \in {r \in Rows(df) : \A j \in Rows(df) : df[r] <= df[j]}}

maxcc_selection(df) ==
    {Move(k[1], k[2]) : k \in first_by_cc(df, Rows(df))}

\* Faulty variant: the zero-amplitude rows are not filtered out.
maxcc_force_move_unfiltered(df) ==
    {Move(k[1], k[2]) : k \in first_by_cc(df, Rows(df))}

maxcc_force_move_selection(df) ==
    LET df_not_zero == {k \in Rows(df) : k[2] # 0}
    IN  {Move(k[1], k[2]) : k \in first_by_cc(df, df_not_zero)}

-----------------------------------------------------------------------------
(* module/stop_iter.py *)

Header == <<"Deformed fig name", "CC of this iter", "Largest mode", "Amplitude",
            "Last 5 iter average CC", "RMSD to Initial">>

\* create_log: a sheet holding the header alone
create_log == <<Header>>

\* Faulty variant: the record takes the place of the last one.
write_log_over_last(sh, record) == IF Len(sh) > 1 THEN [sh EXCEPT ![Len(sh)] = record] ELSE Append(sh, record)

\* ws.append(record)
write_log(sh, record) == Append(sh, record)

\* Faulty variant: the text cell of the header counts as 0 and nothing is raised.
read_pre_iter_cc_and_avrg_header_as_zero(sh, required_num) ==
    LET last_row == Len(sh)
        rows == {r \in (last_row - required_num + 1)..last_row : r >= 2}
    IN  [raised |-> FALSE, value |-> SumOver(rows, [r \in rows |-> sh[r][2]])]

\* lines 86-91: total_value after n passes of the loop, which adds column 2
\* of the rows last_row, last_row - 1, ... to 0, one float addition each
RECURSIVE total_value(_, _)
total_value(sh, n) ==
    IF n = 0 THEN 0
    ELSE fl(total_value(sh, n - 1) + sh[Len(sh) - (n - 1)][2])

\* Reads column 2 of the last required_num rows from the last row upwards and
\* adds them to 0.  Row 1 is the header, whose cell is text: adding it raises
\* TypeError.  The value is the sum.
read_pre_iter_cc_and_avrg(sh, required_num) ==
    LET last_row == Len(sh)
    IN  IF last_row - required_num + 1 <= 1
        THEN [raised |-> TRUE, value |-> 0]
        ELSE [raised |-> FALSE, value |-> total_value(sh, required_num)]

\* Faulty variant: the record is written only when the loop continues.
cc_judgement_avrg_unlogged_stop(sh, deformed_fig_name, cc_iter, mode_max_gradient, deform_amplitude) ==
    LET last5 == read_pre_iter_cc_and_avrg(sh, Window)
        cc_last_5_iter_avrg == IF last5.raised THEN 0 ELSE last5.value
        last4 == read_pre_iter_cc_and_avrg(sh, Window - 1)
        cc_iter_this_iter_avrg ==
            IF last4.raised THEN Window * cc_iter ELSE fl(last4.value + cc_iter)
        record_list == <<deformed_fig_name, cc_iter, mode_max_gradient, deform_amplitude,
                         cc_iter_this_iter_avrg>>
    IN  [sheet |-> IF fl_div(cc_iter_this_iter_avrg, Window) > fl_div(cc_last_5_iter_avrg, Window)
                   THEN write_log(sh, record_list) ELSE sh,
         result |-> fl_div(cc_iter_this_iter_avrg, Window) > fl_div(cc_last_5_iter_avrg, Window)]

\* Faulty variant: an average equal to the previous one continues.
cc_judgement_avrg_not_strict(sh, deformed_fig_name, cc_iter, mode_max_gradient, deform_amplitude) ==
    LET last5 == read_pre_iter_cc_and_avrg(sh, Window)
        cc_last_5_iter_avrg == IF last5.raised THEN 0 ELSE last5.value
        last4 == read_pre_iter_cc_and_avrg(sh, Window - 1)
        cc_iter_this_iter_avrg ==
            IF last4.raised THEN Window * cc_iter ELSE fl(last4.value + cc_iter)
        record_list == <<deformed_fig_name, cc_iter, mode_max_gradient, deform_amplitude,
                         cc_iter_this_iter_avrg>>
    IN  [sheet |-> write_log(sh, record_list),
         result |-> fl_div(cc_iter_this_iter_avrg, Window) >= fl_div(cc_last_5_iter_avrg, Window)]

\* [sheet, result]; the record keeps the average times Window, that is the
\* rounded sum (the own similarity times Window when the read raised, whose
\* quotient is the similarity again); the comparison is made on the rounded
\* quotients, as in lines 115-132
cc_judgement_avrg(sh, deformed_fig_name, cc_iter, mode_max_gradient, deform_amplitude) ==
    LET last5 == read_pre_iter_cc_and_avrg(sh, Window)
        cc_last_5_iter_avrg == IF last5.raised THEN 0 ELSE last5.value
        last4 == read_pre_iter_cc_and_avrg(sh, Window - 1)
        cc_iter_this_iter_avrg ==
            IF last4.raised THEN Window * cc_iter ELSE fl(last4.value + cc_iter)
        record_list == <<deformed_fig_name, cc_iter, mode_max_gradient, deform_amplitude,
                         cc_iter_this_iter_avrg>>
    IN  [sheet |-> write_log(sh, record_list),
         result |-> fl_div(cc_iter_this_iter_avrg, Window) > fl_div(cc_last_5_iter_avrg, Window)]

\* Column 2 of the last row: text when the last row is the header
read_pre_iter_cc(sh) ==
    [text |-> Len(sh) = 1, value |-> IF Len(sh) = 1 THEN 0 ELSE sh[Len(sh)][2]]

\* Faulty variant: a similarity equal to the previous one continues.
cc_judgement_single_not_strict(sh, deformed_fig_name, cc_iter, mode_max_gradient, deform_amplitude) ==
    LET cc_last_iter == read_pre_iter_cc(sh)
        record_list == <<deformed_fig_name, cc_iter, mode_max_gradient, deform_amplitude>>
    IN  [sheet |-> write_log(sh, record_list),
         raised |-> cc_last_iter.text,
         result |-> (~cc_last_iter.text) /\ cc_iter >= cc_last_iter.value]

\* [sheet, raised, result]: the record is written, then cc_iter > cc_last_iter
\* is evaluated, which raises TypeError when cc_last_iter is text.  The
\* FileNotFoundError handler never runs: the log file exists since create_log.
cc_judgement_single(sh, deformed_fig_name, cc_iter, mode_max_gradient, deform_amplitude) ==
    LET cc_last_iter == read_pre_iter_cc(sh)
        record_list == <<deformed_fig_name, cc_iter, mode_max_gradient, deform_amplitude>>
    IN  [sheet |-> write_log(sh, record_list),
         raised |-> cc_last_iter.text,
         result |-> (~cc_last_iter.text) /\ cc_iter > cc_last_iter.value]

-----------------------------------------------------------------------------
(* The sensitivity tables a sweep can give.  The similarities come from the
   external renderer; they are inputs. *)

SweepRows == generate_deformed_conformation(combined_amplitude, start_from_this_mode,
                                            stop_at_this_mode)

\* every table over two levels of similarity
AllSweeps == [SweepRows -> {0, 1}]

\* the structure improves along the first mode: its +A sample scores best
ClimbingSweep ==
    [k \in SweepRows |->
        IF k = <<start_from_this_mode, combined_amplitude>> THEN 1 ELSE 0]

\* the unperturbed structure scores best, the +A sample of the first mode next
SettledSweep ==
    [k \in SweepRows |->
        IF k = <<start_from_this_mode, 0>> THEN 2
        ELSE IF k = <<start_from_this_mode, combined_amplitude>> THEN 1 ELSE 0]

RunSweeps == {ClimbingSweep, SettledSweep}

\* every sample scores the same: every fitted slope is 0
FlatSweep == [k \in SweepRows |-> 0]

-----------------------------------------------------------------------------
(* States of the parts that have not run *)

\* an image file: rows lines of cols values, the values row by row
TsvFile(rows, cols, data) == [rows |-> rows, cols |-> cols, data |-> data]
NoFile == TsvFile(0, 0, <<>>)

\* a pool that was given nothing
NoPool == [queued |-> {}, given |-> {}]

NoScore == Score("none", 0, 0, 1)

NoAnalysis ==
    /\ fit = [status |-> "none", b |-> 0]
    /\ result_step = <<>>

NoImages ==
    /\ target = NoFile
    /\ initial = NoFile
    /\ rescale = [a |-> 1, c |-> 0]
    /\ cc = NoScore

-----------------------------------------------------------------------------
(* nmff_afm.py, state after line 118: checks passed, log created, folder
   <name>#s0 made, initial structure copied into it *)

RunState ==
    /\ pc = "nma"
    /\ i = 0
    /\ deformed_times = 0
    /\ stop_bool = TRUE
    /\ initial_conformation_iter = <<"name">>
    /\ work_directory_iter = <<"name", 0>>
    /\ sheet = create_log
    /\ df_pcc = <<>>
    /\ num_of_largest_mode = 0
    /\ deform_amplitude_1 = 0
    /\ returncode = 0
    /\ error = "none"
    /\ folders = {<<"name", 0>>}
    /\ pdb_files = <<>>
    /\ deformed_pdbs = {}
    /\ pool_tasks = NoPool
    /\ NoAnalysis
    /\ NoImages

\* lines 41-67 and the preconditions of section 6 of the specification:
\* amplitude > 0, first_mode <= last_mode, budget >= 0
Parameters ==
    /\ mode_selection \in Strategies \cup {"other"}
    /\ iteration_to_stop \in 0..MaxBudget
    /\ combined_amplitude \in 1..MaxAmp
    /\ start_from_this_mode \in 1..MaxMode
    /\ stop_at_this_mode \in start_from_this_mode..MaxMode

\* The program as wired: line 67 sets the numeric criterion
Init ==
    /\ termination_criterion = "numeric"
    /\ Parameters
    /\ RunState

\* Line 67 set to any of the three criteria the dispatch of lines 196-211
\* knows, for the two strategies whose move the sweeps below determine
InitPolicies ==
    /\ termination_criterion \in Criteria
    /\ mode_selection \in {"slope", "maxcc_force_move"}
    /\ iteration_to_stop \in 0..MaxBudget
    /\ combined_amplitude = MaxAmp
    /\ start_from_this_mode = 1
    /\ stop_at_this_mode = MaxMode
    /\ RunState

raise(exception) ==
    /\ pc' = "aborted"
    /\ error' = exception

\* lines 131-144: make_block, run_rtb2 (subprocess.run, check=True),
\* move_files_into_folder, generate_deformed_conformation
perturbation ==
    /\ pc = "nma"
    /\ LET calls == deformation_calls(combined_amplitude, start_from_this_mode,
                                      stop_at_this_mode)
       IN  \E ok \in BOOLEAN :
              IF ok
              THEN /\ deformed_pdbs' = generate_deformed_conformation(
                          combined_amplitude, start_from_this_mode, stop_at_this_mode)
                   /\ pc' = "render"
                   /\ error' = error
              ELSE \* a command failed: before the sweep or at one of its calls
                   /\ \E n \in 0..(Len(calls) - 1) : deformed_pdbs' = files_after(calls, n)
                   /\ raise("CalledProcessError")
    /\ UNCHANGED <<config, i, deformed_times, stop_bool, initial_conformation_iter,
                   work_directory_iter, sheet, df_pcc, num_of_largest_mode,
                   deform_amplitude_1, returncode, folders, pdb_files, pool_tasks, analysis, images>>

\* Faulty variant: the return code of afmize is not looked at.
afm_generation_unchecked ==
    /\ pc = "render"
    /\ \E rc \in {0, 1} : returncode' = rc
    /\ pc' = "analyse"
    /\ UNCHANGED <<config, i, deformed_times, stop_bool, initial_conformation_iter,
                   work_directory_iter, sheet, df_pcc, num_of_largest_mode,
                   deform_amplitude_1, error, folders, pdb_files, deformed_pdbs, pool_tasks, analysis, images>>

\* lines 148-153 with images_generator.run_afmize: a return code other than 0
\* raises RuntimeError, which pool.map raises again in the main program
afm_generation ==
    /\ pc = "render"
    /\ \E rc \in {0, 1} :
          /\ returncode' = rc
          /\ IF rc # 0 THEN raise("RuntimeError")
             ELSE pc' = "analyse" /\ error' = error
    /\ UNCHANGED <<config, i, deformed_times, stop_bool, initial_conformation_iter,
                   work_directory_iter, sheet, df_pcc, num_of_largest_mode,
                   deform_amplitude_1, folders, pdb_files, deformed_pdbs, pool_tasks, analysis, images>>

\* lines 157-165
process_data_tsv(sweeps) ==
    /\ pc = "analyse"
    /\ \E table \in sweeps : df_pcc' = table
    /\ pc' = "select"
    /\ UNCHANGED <<config, i, deformed_times, stop_bool, initial_conformation_iter,
                   work_directory_iter, sheet, num_of_largest_mode, deform_amplitude_1,
                   returncode, error, folders, pdb_files, deformed_pdbs, pool_tasks, analysis, images>>

\* lines 176-189: the moves the configured strategy can select
selection(strategy, df, slopes, amplitude) ==
    IF strategy = "slope" THEN slope_selection(slopes, amplitude)
    ELSE IF strategy = "maxcc" THEN maxcc_selection(df)
    ELSE IF strategy = "maxcc_force_move" THEN maxcc_force_move_selection(df)
    ELSE {}

\* lines 168-193: find_largest_slopes runs for every strategy, then the dispatch
select_move ==
    /\ pc = "select"
    /\ LET slopes == df_slopes_of(df_pcc, start_from_this_mode, stop_at_this_mode)
           moves == selection(mode_selection, df_pcc, slopes, combined_amplitude)
       IN  IF find_largest_slopes_raises(slopes)
           THEN raise("IndexError")
                /\ UNCHANGED <<num_of_largest_mode, deform_amplitude_1>>
           ELSE IF mode_selection \notin Strategies
           THEN raise("ValueError")
                /\ UNCHANGED <<num_of_largest_mode, deform_amplitude_1>>
           ELSE \E move \in moves :
                   /\ num_of_largest_mode' = move.mode
                   /\ deform_amplitude_1' = move.amp
                   /\ pc' = "judge"
                   /\ error' = error
    /\ UNCHANGED <<config, i, deformed_times, stop_bool, initial_conformation_iter,
                   work_directory_iter, sheet, df_pcc, returncode, folders, pdb_files,
                   deformed_pdbs, pool_tasks, analysis, images>>

\* Faulty variant: a used-up budget does not stop the loop.
numeric_stop_amplitude_only(times, budget, amplitude) == amplitude = 0

\* Faulty variant: a zero amplitude does not stop the loop.
numeric_stop_budget_only(times, budget, amplitude) == times = budget

\* line 200: the stop condition of the numeric criterion
numeric_stop(times, budget, amplitude) == times = budget \/ amplitude = 0

\* lines 195-211: the similarity of the current structure is computed, its
\* record is written and stop_bool is set (TRUE continues the loop)
judge_on(similarities) ==
    /\ pc = "judge"
    /\ \E cc_iter \in similarities :
          IF termination_criterion = "average"
          THEN LET j == cc_judgement_avrg(sheet, initial_conformation_iter, cc_iter,
                                          num_of_largest_mode, deform_amplitude_1)
               IN  /\ sheet' = j.sheet
                   /\ stop_bool' = j.result
                   /\ pc' = "summary"
                   /\ error' = error
          ELSE IF termination_criterion = "numeric"
          THEN LET j == cc_judgement_avrg(sheet, initial_conformation_iter, cc_iter,
                                          num_of_largest_mode, deform_amplitude_1)
               IN  /\ sheet' = j.sheet
                   /\ stop_bool' = ~numeric_stop(deformed_times, iteration_to_stop,
                                                 deform_amplitude_1)
                   /\ pc' = "summary"
                   /\ error' = error
          ELSE LET j == cc_judgement_single(sheet, initial_conformation_iter, cc_iter,
                                            num_of_largest_mode, deform_amplitude_1)
               IN  /\ sheet' = j.sheet
                   /\ IF j.raised
                      THEN raise("TypeError") /\ stop_bool' = stop_bool
                      ELSE /\ stop_bool' = j.result
                           /\ pc' = "summary"
                           /\ error' = error
    /\ UNCHANGED <<config, i, deformed_times, initial_conformation_iter,
                   work_directory_iter, df_pcc, num_of_largest_mode, deform_amplitude_1,
                   returncode, folders, pdb_files, deformed_pdbs, pool_tasks, analysis, images>>

judge == judge_on(CCValues)

\* Faulty variant: the folder of the next iteration is made before the break.
summary_after_prepare ==
    /\ pc = "summary"
    /\ pc' = IF ~stop_bool THEN "post" ELSE "advance"
    /\ folders' = folders \cup {folder_of_next_iter(work_directory_iter)}
    /\ UNCHANGED <<config, i, deformed_times, stop_bool, initial_conformation_iter,
                   work_directory_iter, sheet, df_pcc, num_of_largest_mode,
                   deform_amplitude_1, returncode, error, pdb_files,
                   deformed_pdbs, pool_tasks, analysis, images>>

\* lines 214-217: summary_files, then the break
summary ==
    /\ pc = "summary"
    /\ pc' = IF ~stop_bool THEN "post" ELSE "advance"
    /\ UNCHANGED <<config, i, deformed_times, stop_bool, initial_conformation_iter,
                   work_directory_iter, sheet, df_pcc, num_of_largest_mode,
                   deform_amplitude_1, returncode, error, folders, pdb_files,
                   deformed_pdbs, pool_tasks, analysis, images>>

\* Faulty variant: the range of the loop has one value more.
in_range_inclusive(k, num_iterations) == k <= num_iterations + Slack

\* line 120: whether range(num_iterations + 10) holds k
in_range(k, num_iterations) == k < num_iterations + Slack

\* Faulty variant: the move is applied to the structure the run started from.
next_iter_from_first_structure ==
    /\ pc = "advance"
    /\ LET conf_name_next_iter == filename_of_next_iter(initial_conformation_iter)
           dir_name_next_itr == folder_of_next_iter(work_directory_iter)
       IN  /\ folders' = folders \cup {dir_name_next_itr}
           /\ \E ok \in BOOLEAN :
                 IF ok
                 THEN /\ pdb_files' = Append(pdb_files,
                             [name |-> conf_name_next_iter,
                              initial_pdb |-> <<"name">>,
                              frequency |-> num_of_largest_mode,
                              amplitude |-> deform_amplitude_1])
                      /\ work_directory_iter' = dir_name_next_itr
                      /\ initial_conformation_iter' = conf_name_next_iter
                      /\ deformed_times' = deformed_times + 1
                      /\ deformed_pdbs' = {}
                      /\ i' = i + 1
                      /\ pc' = IF in_range(i + 1, iteration_to_stop) THEN "nma" ELSE "post"
                      /\ error' = error
                 ELSE /\ raise("CalledProcessError")
                      /\ UNCHANGED <<pdb_files, work_directory_iter,
                                     initial_conformation_iter, deformed_times, i,
                                     deformed_pdbs>>
    /\ UNCHANGED <<config, stop_bool, sheet, df_pcc, num_of_largest_mode,
                   deform_amplitude_1, returncode, pool_tasks, analysis, images>>

\* lines 220-239 and the loop test of line 120: the next folder is made, the
\* move is applied by deformation_rtb (subprocess.run, check=True), the run
\* state advances
next_iter ==
    /\ pc = "advance"
    /\ LET conf_name_next_iter == filename_of_next_iter(initial_conformation_iter)
           dir_name_next_itr == folder_of_next_iter(work_directory_iter)
       IN  /\ folders' = folders \cup {dir_name_next_itr}
           /\ \E ok \in BOOLEAN :
                 IF ok
                 THEN /\ pdb_files' = Append(pdb_files,
                             [name |-> conf_name_next_iter,
                              initial_pdb |-> initial_conformation_iter,
                              frequency |-> num_of_largest_mode,
                              amplitude |-> deform_amplitude_1])
                      /\ work_directory_iter' = dir_name_next_itr
                      /\ initial_conformation_iter' = conf_name_next_iter
                      /\ deformed_times' = deformed_times + 1
                      /\ deformed_pdbs' = {}
                      /\ i' = i + 1
                      /\ pc' = IF in_range(i + 1, iteration_to_stop) THEN "nma" ELSE "post"
                      /\ error' = error
                 ELSE /\ raise("CalledProcessError")
                      /\ UNCHANGED <<pdb_files, work_directory_iter,
                                     initial_conformation_iter, deformed_times, i,
                                     deformed_pdbs>>
    /\ UNCHANGED <<config, stop_bool, sheet, df_pcc, num_of_largest_mode,
                   deform_amplitude_1, returncode, pool_tasks, analysis, images>>

\* ws.cell(row, column).value = value on one row of the sheet: the cells
\* between the end of the row and the column stay empty (<<>>)
set_cell(row, column, value) ==
    [k \in 1..(IF Len(row) > column THEN Len(row) ELSE column) |->
        IF k = column THEN value ELSE IF k <= Len(row) THEN row[k] ELSE <<>>]

\* the RMSD Pro-Fit reports for a structure, an output of the external tool
rmsd_calculation(name) == <<"RMS", name>>

\* rms_calculation.py:112-130 for column 6: the dictionary holds every
\* structure of All_conformation but the initial one, those of the steps
\* from 1 on; each key writes its row, and the cell of row 2 with 0.0
process_rmsd_dictionary(sh) ==
    IF Len(sh) <= 2 THEN sh
    ELSE [r \in DOMAIN sh |->
            IF r = 1 THEN sh[r]
            ELSE IF r = 2 THEN set_cell(sh[r], 6, 0)
            ELSE set_cell(sh[r], 6, rmsd_calculation(sh[r][1]))]

\* line 242, without a reference structure: Pro-Fit runs under
\* subprocess.run(check=True), then the RMSD cells are written
rmsd_to_initial_and_reference ==
    /\ pc = "post"
    /\ \E ok \in BOOLEAN :
          IF ok
          THEN /\ sheet' = process_rmsd_dictionary(sheet)
               /\ pc' = "scoring"
               /\ error' = error
          ELSE /\ raise("CalledProcessError")
               /\ sheet' = sheet
    /\ UNCHANGED <<config, i, deformed_times, stop_bool, initial_conformation_iter,
                   work_directory_iter, df_pcc, num_of_largest_mode,
                   deform_amplitude_1, returncode, folders, pdb_files,
                   deformed_pdbs, pool_tasks, analysis, images>>

\* np.log(p) in millionths, for the fractions of p_list
log_of_fraction(p) ==
    IF p = "0.05" THEN 0 - 2995732
    ELSE IF p = "0.03" THEN 0 - 3506558
    ELSE 0 - 4605170

p_list == <<"0.05", "0.03", "0.01">>

\* the rates b, in thousandths, that curve_fit can return
Rates == {0 - 3000, 0 - 1000, 0 - 500, 0, 2000, 3000}

\* ceil(n / d) for d # 0
ceil(n, d) == IF d > 0 THEN 0 - ((0 - n) \div d) ELSE 0 - (n \div (0 - d))

\* int(np.ceil(np.log(p) / b_fit + 1)) for b_fit # 0, b_fit in thousandths
decay_step(p, b_fit) == ceil(log_of_fraction(p) + 1000 * b_fit, 1000 * b_fit)

\* Faulty variant: a step beyond the log is not replaced by the last step.
clamped_step_unclamped(p, b_fit, m) == decay_step(p, b_fit)

\* lines 215-219: u, replaced by m when it exceeds m
clamped_step(p, b_fit, m) ==
    IF decay_step(p, b_fit) > m THEN m ELSE decay_step(p, b_fit)

\* Faulty variant: the row of the header is not counted.
write_result_step_to_xlsx_header_forgotten(sh, result) ==
    [r \in DOMAIN sh |-> IF r = result + 1 THEN set_cell(sh[r], 9, <<"s", result>>) ELSE sh[r]]

\* scoring_and_export.py:293-309
write_result_step_to_xlsx(sh, result) ==
    [r \in DOMAIN sh |-> IF r = result + 2 THEN set_cell(sh[r], 9, <<"s", result>>) ELSE sh[r]]

\* lines 247-251 with scoring_and_export.scoring_conformations, without a
\* reference structure.  curve_fit has two parameters: it raises on fewer
\* than two points (ValueError on none with a recent scipy, TypeError
\* otherwise) and raises RuntimeError when the least squares do not
\* converge; nothing catches either.  A rate 0.0 makes np.log(p) / b_fit
\* infinite and int() raise OverflowError; a step below 0 is no label of
\* A_RMSD and .loc raises KeyError.  The value of a has no part in the step.
scoring_conformations ==
    /\ pc = "scoring"
    /\ LET m == Len(sheet) - 2
       IN  IF m < 2
           THEN /\ fit' = [status |-> "improper", b |-> 0]
                /\ \E exception \in (IF m < 1 THEN {"ValueError", "TypeError"}
                                      ELSE {"TypeError"}) : raise(exception)
                /\ UNCHANGED <<sheet, result_step>>
           ELSE \/ /\ fit' = [status |-> "diverged", b |-> 0]
                   /\ raise("RuntimeError")
                   /\ UNCHANGED <<sheet, result_step>>
                \/ \E b_fit \in Rates :
                      /\ fit' = [status |-> "converged", b |-> b_fit]
                      /\ IF b_fit = 0
                         THEN raise("OverflowError") /\ UNCHANGED <<sheet, result_step>>
                         ELSE IF \E n \in DOMAIN p_list : clamped_step(p_list[n], b_fit, m) < 0
                         THEN raise("KeyError") /\ UNCHANGED <<sheet, result_step>>
                         ELSE LET num_of_step == clamped_step("0.03", b_fit, m)
                              IN  /\ result_step' = <<num_of_step>>
                                  /\ sheet' = write_result_step_to_xlsx(sheet, num_of_step)
                                  /\ pc' = "done"
                                  /\ error' = error
    /\ UNCHANGED <<config, i, deformed_times, stop_bool, initial_conformation_iter,
                   work_directory_iter, df_pcc, num_of_largest_mode,
                   deform_amplitude_1, returncode, folders, pdb_files,
                   deformed_pdbs, pool_tasks, images>>

Next ==
    \/ perturbation
    \/ afm_generation
    \/ process_data_tsv(RunSweeps)
    \/ select_move
    \/ judge
    \/ summary
    \/ next_iter
    \/ rmsd_to_initial_and_reference
    \/ scoring_conformations

Spec == Init /\ [][Next]_vars

SpecPolicies == InitPolicies /\ [][Next]_vars

\* The loop alone (lines 120-239) under the three criteria, up to the point
\* where it is left
LoopNext ==
    \/ perturbation
    \/ afm_generation
    \/ process_data_tsv(RunSweeps)
    \/ select_move
    \/ judge
    \/ summary
    \/ next_iter

LoopSpec == InitPolicies /\ [][LoopNext]_vars

-----------------------------------------------------------------------------
(* The loop of the program as wired (lines 120-239), with the strategies
   that never select the unperturbed sample, on sweeps that include the
   flat one *)

NumericInit ==
    /\ termination_criterion = "numeric"
    /\ mode_selection \in {"slope", "maxcc_force_move"}
    /\ iteration_to_stop \in 0..MaxFlatBudget
    /\ combined_amplitude \in 1..MaxAmp
    /\ start_from_this_mode = 1
    /\ stop_at_this_mode = MaxMode
    /\ RunState

NumericNext ==
    \/ perturbation
    \/ afm_generation
    \/ process_data_tsv(RunSweeps \cup {FlatSweep})
    \/ select_move
    \/ judge
    \/ summary
    \/ next_iter

NumericSpec == NumericInit /\ [][NumericNext]_vars

-----------------------------------------------------------------------------
(* One sensitivity analysis and selection (lines 157-193) over every table
   of AllSweeps, in the first iteration *)

SweepInit ==
    /\ termination_criterion = "numeric"
    /\ Parameters
    /\ iteration_to_stop = MaxBudget
    /\ pc = "analyse"
    /\ i = 0
    /\ deformed_times = 0
    /\ stop_bool = TRUE
    /\ initial_conformation_iter = <<"name">>
    /\ work_directory_iter = <<"name", 0>>
    /\ sheet = create_log
    /\ df_pcc = <<>>
    /\ num_of_largest_mode = 0
    /\ deform_amplitude_1 = 0
    /\ returncode = 0
    /\ error = "none"
    /\ folders = {<<"name", 0>>}
    /\ pdb_files = <<>>
    /\ deformed_pdbs = SweepRows
    /\ pool_tasks = NoPool
    /\ NoAnalysis
    /\ NoImages

SweepNext ==
    \/ process_data_tsv(AllSweeps)
    \/ select_move

SweepSpec == SweepInit /\ [][SweepNext]_vars

-----------------------------------------------------------------------------
(* The first half of the first iteration (lines 131-165) for every combined
   amplitude up to MaxSweepAmp *)

DeformInit ==
    /\ termination_criterion = "numeric"
    /\ mode_selection = "slope"
    /\ iteration_to_stop = MaxBudget
    /\ combined_amplitude \in 1..MaxSweepAmp
    /\ start_from_this_mode \in 1..MaxMode
    /\ stop_at_this_mode \in start_from_this_mode..MaxMode
    /\ RunState

DeformNext ==
    \/ perturbation
    \/ afm_generation
    \/ process_data_tsv(RunSweeps)

DeformSpec == DeformInit /\ [][DeformNext]_vars

(***************************************************************************)
(* The rendering of one iteration, task by task                            *)
(* (images_generator.py:110-131).  afm_generation globs the pdb files of   *)
(* the iteration folder, the perturbed structures and the conformation     *)
(* the iteration started from, and maps run_afmize over them in a pool of  *)
(* worker processes; the workers complete the tasks in any order.          *)
(***************************************************************************)
\* the pdb of the conformation the iteration starts from, as a task
initial_pdb == <<0, 0>>

\* images_generator.py:127-131: the files are globbed and given to the pool
pool_map ==
    /\ pc = "render"
    /\ pool_tasks' = [queued |-> deformed_pdbs \cup {initial_pdb},
                      given |-> deformed_pdbs \cup {initial_pdb}]
    /\ returncode' = 0
    /\ pc' = "rendering"
    /\ UNCHANGED <<config, i, deformed_times, stop_bool, initial_conformation_iter,
                   work_directory_iter, sheet, df_pcc, num_of_largest_mode,
                   deform_amplitude_1, error, folders, pdb_files, deformed_pdbs, analysis, images>>

\* images_generator.py:87-107: a worker runs afmize on one file; a return
\* code other than 0 raises in the worker, and the pool keeps the exception
run_afmize(file) ==
    /\ pc = "rendering"
    /\ file \in pool_tasks.queued
    /\ \E rc \in {0, 1} :
          /\ returncode' = IF rc # 0 THEN rc ELSE returncode
          /\ pool_tasks' = [pool_tasks EXCEPT !.queued = @ \ {file}]
    /\ UNCHANGED <<config, pc, i, deformed_times, stop_bool, initial_conformation_iter,
                   work_directory_iter, sheet, df_pcc, num_of_largest_mode,
                   deform_amplitude_1, error, folders, pdb_files, deformed_pdbs, analysis, images>>

\* Faulty variant: the tasks are handed over and not waited for (map_async).
pool_return_not_waiting ==
    /\ pc = "rendering"
    /\ IF returncode # 0 THEN raise("RuntimeError")
       ELSE pc' = "analyse" /\ error' = error
    /\ UNCHANGED <<config, i, deformed_times, stop_bool, initial_conformation_iter,
                   work_directory_iter, sheet, df_pcc, num_of_largest_mode,
                   deform_amplitude_1, returncode, folders, pdb_files, deformed_pdbs,
                   pool_tasks, analysis, images>>

\* images_generator.py:130-131: pool.map returns when every task has
\* completed, and raises the exception of a task that failed
pool_return ==
    /\ pc = "rendering"
    /\ pool_tasks.queued = {}
    /\ IF returncode # 0 THEN raise("RuntimeError")
       ELSE pc' = "analyse" /\ error' = error
    /\ UNCHANGED <<config, i, deformed_times, stop_bool, initial_conformation_iter,
                   work_directory_iter, sheet, df_pcc, num_of_largest_mode,
                   deform_amplitude_1, returncode, folders, pdb_files, deformed_pdbs,
                   pool_tasks, analysis, images>>

RenderInit ==
    /\ termination_criterion = "numeric"
    /\ mode_selection = "slope"
    /\ iteration_to_stop = MaxBudget
    /\ combined_amplitude \in 1..MaxAmp
    /\ start_from_this_mode \in 1..MaxMode
    /\ stop_at_this_mode \in start_from_this_mode..MaxMode
    /\ RunState

RenderNext ==
    \/ perturbation
    \/ pool_map
    \/ \E file \in pool_tasks.queued : run_afmize(file)
    \/ pool_return
    \/ process_data_tsv(RunSweeps)

RenderSpec == RenderInit /\ [][RenderNext]_vars

-----------------------------------------------------------------------------
(* One similarity calculation (slope_of_gradient.py:182-186) on two image
   files: the target, and an image rescaled as a * image + c *)

Shapes == {<<1, 4>>, <<2, 2>>, <<2, 6>>, <<3, 4>>}
Patterns == {"ramp", "comb", "step", "flat"}

pixel(pattern, k, n) ==
    IF pattern = "ramp" THEN (k - 1) % (MaxPixel + 1)
    ELSE IF pattern = "comb" THEN (IF k % 2 = 0 THEN MaxPixel ELSE 0)
    ELSE IF pattern = "step" THEN (IF 2 * k > n THEN 1 ELSE 0)
    ELSE 1

Image(shape, pattern) ==
    TsvFile(shape[1], shape[2],
            [k \in 1..(shape[1] * shape[2]) |-> pixel(pattern, k, shape[1] * shape[2])])

\* a * image + c
Rescaled(file, a, c) ==
    TsvFile(file.rows, file.cols, [k \in DOMAIN file.data |-> a * file.data[k] + c])

Scales == 1..MaxScale
Offsets == (0 - MaxScale * MaxPixel - 1)..1

ImageInit ==
    /\ termination_criterion = "numeric"
    /\ mode_selection = "slope"
    /\ iteration_to_stop = MaxBudget
    /\ combined_amplitude = MaxAmp
    /\ start_from_this_mode = 1
    /\ stop_at_this_mode = MaxMode
    /\ pc = "compare"
    /\ i = 0
    /\ deformed_times = 0
    /\ stop_bool = TRUE
    /\ initial_conformation_iter = <<"name">>
    /\ work_directory_iter = <<"name", 0>>
    /\ sheet = create_log
    /\ df_pcc = <<>>
    /\ num_of_largest_mode = 0
    /\ deform_amplitude_1 = 0
    /\ returncode = 0
    /\ error = "none"
    /\ folders = {<<"name", 0>>}
    /\ pdb_files = <<>>
    /\ deformed_pdbs = SweepRows
    /\ pool_tasks = NoPool
    /\ NoAnalysis
    /\ cc = NoScore
    /\ \E shape \in Shapes, pattern \in Patterns : target = Image(shape, pattern)
    /\ \E shape \in Shapes, pattern \in Patterns, a \in Scales, c \in Offsets :
          /\ initial = Rescaled(Image(shape, pattern), a, c)
          /\ rescale = [a |-> a, c |-> c]

\* lines 182-186 of cc_calculation_pearson_tsv
cc_calculation ==
    /\ pc = "compare"
    /\ cc' = calculation_correlation_pearson_tsv_normalized(target, initial)
    /\ pc' = "compared"
    /\ UNCHANGED <<config, i, deformed_times, stop_bool, initial_conformation_iter,
                   work_directory_iter, sheet, df_pcc, num_of_largest_mode,
                   deform_amplitude_1, returncode, error, folders, pdb_files,
                   deformed_pdbs, pool_tasks, analysis, target, initial, rescale>>

ImageNext == cc_calculation

ImageSpec == ImageInit /\ [][ImageNext]_vars

-----------------------------------------------------------------------------
(* One judgement (lines 195-211) on a log that already holds the records of
   n earlier steps, each written by the same judgement *)

RECURSIVE name_of_step(_)
name_of_step(k) ==
    IF k = 0 THEN <<"name">> ELSE filename_of_next_iter(name_of_step(k - 1))

RECURSIVE log_of(_, _, _, _)
log_of(ccs, criterion, mode, amplitude) ==
    IF ccs = <<>> THEN create_log
    ELSE LET n == Len(ccs)
             before == log_of(SubSeq(ccs, 1, n - 1), criterion, mode, amplitude)
         IN  IF criterion = "single"
             THEN cc_judgement_single(before, name_of_step(n - 1), ccs[n], mode,
                                      amplitude).sheet
             ELSE cc_judgement_avrg(before, name_of_step(n - 1), ccs[n], mode,
                                    amplitude).sheet

JudgeInit ==
    /\ termination_criterion \in {"average", "single"}
    /\ mode_selection = "slope"
    /\ iteration_to_stop = MaxBudget
    /\ combined_amplitude = MaxAmp
    /\ start_from_this_mode = 1
    /\ stop_at_this_mode = MaxMode
    /\ pc = "judge"
    /\ stop_bool = TRUE
    /\ df_pcc = ClimbingSweep
    /\ num_of_largest_mode = start_from_this_mode
    /\ deform_amplitude_1 = combined_amplitude
    /\ returncode = 0
    /\ error = "none"
    /\ deformed_pdbs = SweepRows
    /\ pool_tasks = NoPool
    /\ NoAnalysis
    /\ NoImages
    /\ \E n \in 0..MaxRows :
          /\ i = n
          /\ deformed_times = n
          /\ initial_conformation_iter = name_of_step(n)
          /\ work_directory_iter = <<"name", n>>
          /\ folders = {<<"name", k>> : k \in 0..n}
          /\ pdb_files = [k \in 1..n |->
                             [name |-> name_of_step(k),
                              initial_pdb |-> name_of_step(k - 1),
                              frequency |-> start_from_this_mode,
                              amplitude |-> combined_amplitude]]
          /\ \E ccs \in [1..n -> CCValues] :
                sheet = log_of(ccs, termination_criterion, start_from_this_mode,
                               combined_amplitude)

JudgeNext == judge

JudgeSpec == JudgeInit /\ [][JudgeNext]_vars

-----------------------------------------------------------------------------
(* The start of a run, nmff_afm.py:69-118, in an upper folder that may hold
   the remains of an earlier run: the folder All_conformation, the folder
   of the first iteration and an overall log with its records *)

\* lines 76-93: the checks before the question
preflight ==
    /\ pc = "check"
    /\ \E env_set, initial_found, target_found, reference_found \in BOOLEAN :
          LET raised == check_folders_and_print(folders, sheet, initial_conformation_iter,
                                                env_set, initial_found, target_found,
                                                reference_found)
          IN  /\ error' = raised
              /\ pc' = IF raised = "none" THEN "confirm" ELSE "aborted"
    /\ UNCHANGED <<config, i, deformed_times, stop_bool, initial_conformation_iter,
                   work_directory_iter, sheet, df_pcc, num_of_largest_mode, deform_amplitude_1,
                   returncode, folders, pdb_files, deformed_pdbs, pool_tasks, analysis, images>>

\* line 97 and check_list.py:190-205: the answer of the user, asked again
\* until it is yes or no
confirmation ==
    /\ pc = "confirm"
    /\ \E user_input \in {"yes", "no"} :
          pc' = IF user_input = "yes" THEN "summary_folder" ELSE "stopped"
    /\ UNCHANGED <<config, i, deformed_times, stop_bool, initial_conformation_iter,
                   work_directory_iter, sheet, df_pcc, num_of_largest_mode, deform_amplitude_1,
                   returncode, error, folders, pdb_files, deformed_pdbs, pool_tasks, analysis,
                   images>>

\* lines 99-103: All_conformation is made unless it exists
make_summary_folder ==
    /\ pc = "summary_folder"
    /\ folders' = folders \cup {<<"All_conformation">>}
    /\ pc' = "create_log"
    /\ UNCHANGED <<config, i, deformed_times, stop_bool, initial_conformation_iter,
                   work_directory_iter, sheet, df_pcc, num_of_largest_mode, deform_amplitude_1,
                   returncode, error, pdb_files, deformed_pdbs, pool_tasks, analysis, images>>

\* line 106: a new workbook with the header is saved under the name of the
\* overall log, over a file of that name if there is one
make_log ==
    /\ pc = "create_log"
    /\ sheet' = create_log
    /\ pc' = "first_folder"
    /\ UNCHANGED <<config, i, deformed_times, stop_bool, initial_conformation_iter,
                   work_directory_iter, df_pcc, num_of_largest_mode, deform_amplitude_1,
                   returncode, error, folders, pdb_files, deformed_pdbs, pool_tasks, analysis,
                   images>>

\* lines 109-118: the folder of the first iteration is made, or the run ends
\* with FileExistsError; the initial structure is copied into it
make_first_folder ==
    /\ pc = "first_folder"
    /\ work_directory_iter' = folder_name(initial_conformation_iter)
    /\ IF folder_name(initial_conformation_iter) \notin folders
       THEN /\ folders' = folders \cup {folder_name(initial_conformation_iter)}
            /\ pc' = "nma"
            /\ error' = error
       ELSE /\ folders' = folders
            /\ pc' = "aborted"
            /\ error' = "FileExistsError"
    /\ UNCHANGED <<config, i, deformed_times, stop_bool, initial_conformation_iter, sheet,
                   df_pcc, num_of_largest_mode, deform_amplitude_1, returncode, pdb_files,
                   deformed_pdbs, pool_tasks, analysis, images>>

\* the logs an earlier run can have left
EarlierLogs ==
    {log_of(ccs, "numeric", 1, MaxAmp) : ccs \in UNION {[1..n -> CCValues] : n \in 0..MaxBudget}}

StartInit ==
    /\ termination_criterion = "numeric"
    /\ mode_selection = "slope"
    /\ iteration_to_stop = MaxBudget
    /\ combined_amplitude = MaxAmp
    /\ start_from_this_mode = 1
    /\ stop_at_this_mode = MaxMode
    /\ pc = "check"
    /\ i = 0
    /\ deformed_times = 0
    /\ stop_bool = TRUE
    /\ initial_conformation_iter \in {<<"name">>, <<"name", 1>>}
    /\ work_directory_iter = <<>>
    /\ sheet \in {NoLog} \cup EarlierLogs
    /\ df_pcc = <<>>
    /\ num_of_largest_mode = 0
    /\ deform_amplitude_1 = 0
    /\ returncode = 0
    /\ error = "none"
    /\ folders \in SUBSET {<<"All_conformation">>, <<"name", 0>>, <<"name", 1, 0>>}
    /\ pdb_files = <<>>
    /\ deformed_pdbs = {}
    /\ pool_tasks = NoPool
    /\ NoAnalysis
    /\ NoImages

StartNext ==
    \/ preflight
    \/ confirmation
    \/ make_summary_folder
    \/ make_log
    \/ make_first_folder

StartSpec == StartInit /\ [][StartNext]_vars

-----------------------------------------------------------------------------
(* The same judgement under the average criterion on similarities whose
   sums are rounded: two small ones, and two neighbouring floats H and H + 1
   of which four already add up to a float with a coarser distance *)

H == 2^(Mantissa - 1)
FloatValues == {1, 2, H, H + 1}

FloatInit ==
    /\ termination_criterion = "average"
    /\ mode_selection = "slope"
    /\ iteration_to_stop = MaxBudget
    /\ combined_amplitude = MaxAmp
    /\ start_from_this_mode = 1
    /\ stop_at_this_mode = MaxMode
    /\ pc = "judge"
    /\ stop_bool = TRUE
    /\ df_pcc = ClimbingSweep
    /\ num_of_largest_mode = start_from_this_mode
    /\ deform_amplitude_1 = combined_amplitude
    /\ returncode = 0
    /\ error = "none"
    /\ deformed_pdbs = SweepRows
    /\ pool_tasks = NoPool
    /\ NoAnalysis
    /\ NoImages
    /\ \E n \in 0..MaxRows :
          /\ i = n
          /\ deformed_times = n
          /\ initial_conformation_iter = name_of_step(n)
          /\ work_directory_iter = <<"name", n>>
          /\ folders = {<<"name", k>> : k \in 0..n}
          /\ pdb_files = [k \in 1..n |->
                             [name |-> name_of_step(k),
                              initial_pdb |-> name_of_step(k - 1),
                              frequency |-> start_from_this_mode,
                              amplitude |-> combined_amplitude]]
          /\ \E ccs \in [1..n -> FloatValues] :
                sheet = log_of(ccs, termination_criterion, start_from_this_mode,
                               combined_amplitude)

FloatNext == judge_on(FloatValues)

FloatSpec == FloatInit /\ [][FloatNext]_vars

-----------------------------------------------------------------------------
(* Properties *)

\* the record of step k: row k + 2 of the sheet, fields
\* <<name, cc, mode, amplitude, rolling average>>
Records == Len(sheet) - 1
Record(k) == sheet[k + 2]
LastRecord == sheet[Len(sheet)]

\* the name the specification gives the structure of step k
StepName(k) == IF k = 0 THEN <<"name">> ELSE <<"name", k>>

\* C1: under the numeric criterion with budget N the loop stops at the first
\* iteration at which deformed_times = N or the selected amplitude is 0: the
\* decision of an iteration is "stop" exactly then, the loop is left only
\* after such a decision, and every earlier iteration had neither, applied
\* its move and incremented deformed_times.
C1_NumericStop ==
    termination_criterion = "numeric" =>
        /\ pc = "summary" =>
              (~stop_bool <=> (deformed_times = iteration_to_stop \/ LastRecord[4] = 0))
        /\ pc \in {"post", "scoring", "done"} =>
              /\ ~stop_bool
              /\ Records = i + 1
              /\ deformed_times = iteration_to_stop \/ LastRecord[4] = 0
        /\ pc = "advance" => stop_bool
        /\ deformed_times = i
        /\ Len(pdb_files) = i
        /\ \A k \in 0..(i - 1) :
              /\ k # iteration_to_stop
              /\ Record(k)[4] # 0
              /\ pdb_files[k + 1].initial_pdb = Record(k)[1]
              /\ pdb_files[k + 1].frequency = Record(k)[3]
              /\ pdb_files[k + 1].amplitude = Record(k)[4]

\* a run that continued at least once and then stopped on a zero amplitude
\* before the budget was used up
C1_Witness ==
    /\ termination_criterion = "numeric"
    /\ pc = "scoring"
    /\ i >= 1
    /\ deformed_times < iteration_to_stop
    /\ LastRecord[4] = 0

C3_StepIndices ==
    \A k \in 0..(Records - 1) : Record(k)[1] = StepName(k)

\* a finished run with at least three records
C3_Witness ==
    /\ pc = "done"
    /\ Records >= 3

\* C4: a render that returns non-success in iteration k aborts the run with
\* the log holding exactly the complete records of the steps 0..k-1, and
\* nothing runs afterwards.
C4_RenderFailure ==
    returncode # 0 =>
        /\ pc = "aborted"
        /\ error = "RuntimeError"
        /\ Records = i
        /\ \A k \in 0..(i - 1) : Len(Record(k)) = 5 /\ Record(k)[1] = StepName(k)
        /\ ~ENABLED Next

\* the render of a later iteration failed
C4_Witness ==
    /\ returncode # 0
    /\ i >= 1

Selected == <<num_of_largest_mode, deform_amplitude_1>>

\* C5: maxcc_force_move selects a sample of non-zero amplitude whose
\* similarity is the greatest among the samples of non-zero amplitude.
C5_ForceMove ==
    (pc = "judge" /\ mode_selection = "maxcc_force_move") =>
        /\ deform_amplitude_1 # 0
        /\ Selected \in Rows(df_pcc)
        /\ \A k \in Rows(df_pcc) : k[2] # 0 => df_pcc[Selected] >= df_pcc[k]

\* a selection from a table whose zero-amplitude samples beat every other
C5_Witness ==
    /\ pc = "judge"
    /\ mode_selection = "maxcc_force_move"
    /\ \E z \in Rows(df_pcc) :
          z[2] = 0 /\ \A k \in Rows(df_pcc) : k[2] # 0 => df_pcc[z] > df_pcc[k]

\* C6: maxcc selects the (mode, amplitude) of a sample whose similarity is at
\* least that of every sample of the table, zero amplitude included.
C6_MaxCC ==
    (pc = "judge" /\ mode_selection = "maxcc") =>
        /\ Selected \in Rows(df_pcc)
        /\ \A k \in Rows(df_pcc) : df_pcc[Selected] >= df_pcc[k]

\* maxcc selected the no-op sample of a table that has lower samples
C6_Witness ==
    /\ pc = "judge"
    /\ mode_selection = "maxcc"
    /\ deform_amplitude_1 = 0
    /\ \E k \in Rows(df_pcc) : df_pcc[k] < df_pcc[Selected]

SlopeOf(mode) == slope_calculation(df_pcc, mode)
ModeRange == start_from_this_mode..stop_at_this_mode
LargestModes == {m \in ModeRange : \A n \in ModeRange : Abs(SlopeOf(m)) >= Abs(SlopeOf(n))}
FirstEncountered(modes) == CHOOSE m \in modes : \A n \in modes : m <= n

\* C7 as stated: the mode selected by slope is the first-encountered mode of
\* largest absolute slope, the amplitude +A or -A by the sign of the slope.
C7_FirstEncountered ==
    (pc = "judge" /\ mode_selection = "slope") =>
        /\ num_of_largest_mode = FirstEncountered(LargestModes)
        /\ SlopeOf(num_of_largest_mode) > 0 => deform_amplitude_1 = combined_amplitude
        /\ SlopeOf(num_of_largest_mode) < 0 => deform_amplitude_1 = 0 - combined_amplitude

\* C7 as amended: the mode selected by slope is a mode of largest absolute
\* slope, any of them when several tie; the amplitude is +A when that slope
\* is positive and -A when it is negative.
C7_LargestSlope ==
    (pc = "judge" /\ mode_selection = "slope") =>
        /\ num_of_largest_mode \in LargestModes
        /\ SlopeOf(num_of_largest_mode) > 0 => deform_amplitude_1 = combined_amplitude
        /\ SlopeOf(num_of_largest_mode) < 0 => deform_amplitude_1 = 0 - combined_amplitude

\* slope selected a negative move along a mode that ties with an earlier one
C7_Witness ==
    /\ pc = "judge"
    /\ mode_selection = "slope"
    /\ deform_amplitude_1 = 0 - combined_amplitude
    /\ num_of_largest_mode # FirstEncountered(LargestModes)

\* the similarities of the records lo..hi, added
WindowSum(lo, hi) == SumOver(lo..hi, [k \in lo..hi |-> Record(k)[2]])
Max(a, b) == IF a > b THEN a ELSE b

\* mean similarity of records lo1..hi1 greater than that of records lo0..hi0
MeanExceeds(lo1, hi1, lo0, hi0) ==
    WindowSum(lo1, hi1) * (hi0 - lo0 + 1) > WindowSum(lo0, hi0) * (hi1 - lo1 + 1)

C10_FirstIteration ==
    (termination_criterion \in {"average", "single"} /\ i = 0 /\ pc \in {"summary", "aborted"}
        /\ error \in {"none", "TypeError"} /\ fit.status = "none") =>
        /\ error = "none"
        /\ Records = 1
        /\ stop_bool <=> Record(0)[2] > 0

\* the rolling-average field of the record of step k, times Window
RollingAverage(k) == Record(k)[5]

\* C11 as stated: the rolling-average field of the record of step k is the
\* mean of the similarities of the steps k-4..k when the log holds at least
\* 5 records with that of step k, and the mean over the steps 0..k when it
\* holds fewer.
C11_RollingMean ==
    termination_criterion \in {"numeric", "average"} =>
        \A k \in 0..(Records - 1) :
            IF k + 1 >= Window
            THEN RollingAverage(k) = WindowSum(k - Window + 1, k)
            ELSE RollingAverage(k) * (k + 1) = Window * WindowSum(0, k)

\* C11 as amended: under the numeric and the average criterion the
\* rolling-average field of the record of step k is the mean of the
\* similarities of the steps k-4..k when the log holds at least 5 records
\* with that of step k, and the similarity of step k alone when it holds
\* fewer; the record the single criterion writes has no such field.
C11_RollingOrOwn ==
    /\ termination_criterion \in {"numeric", "average"} =>
          \A k \in 0..(Records - 1) :
              /\ Len(Record(k)) >= 5
              /\ IF k + 1 >= Window
                 THEN RollingAverage(k) = WindowSum(k - Window + 1, k)
                 ELSE RollingAverage(k) = Window * Record(k)[2]
    /\ termination_criterion = "single" =>
          \A k \in 0..(Records - 1) : Len(Record(k)) = 4

\* a log of more than 5 records whose third record differs from the two
\* before it and whose last record differs from the mean of its window
C11_Witness ==
    /\ termination_criterion = "average"
    /\ Records > Window
    /\ Record(2)[2] # Record(1)[2]
    /\ Record(1)[2] # Record(0)[2]
    /\ Window * Record(Records - 1)[2] # RollingAverage(Records - 1)

\* trunc(a / 2) for a > 0: the integer h with 2h <= a < 2h + 2
TruncHalf(a) == CHOOSE h \in 0..a : 2 * h <= a /\ a < 2 * h + 2

\* the amplitudes at which the files of the folder perturb a mode
SampledAmplitudes(mode) == {f[2] : f \in {g \in deformed_pdbs : g[1] = mode}}

\* C12: once the perturbation of an iteration is done, every mode of the
\* range is perturbed at exactly the amplitudes -A, -trunc(A/2), 0,
\* trunc(A/2), A, no other mode is perturbed, and for A = 10 the amplitudes
\* are exactly -10, -5, 0, 5, 10.
C12_Amplitudes ==
    pc \in {"render", "analyse", "select", "judge", "summary", "advance"} =>
        /\ \A mode \in ModeRange :
              SampledAmplitudes(mode) =
                  {0 - combined_amplitude, 0 - TruncHalf(combined_amplitude), 0,
                   TruncHalf(combined_amplitude), combined_amplitude}
        /\ \A f \in deformed_pdbs : f[1] \in ModeRange
        /\ combined_amplitude = 10 =>
              \A mode \in ModeRange : SampledAmplitudes(mode) = {0 - 10, 0 - 5, 0, 5, 10}

\* the sweep of amplitude 10 was rendered
C12_Witness ==
    /\ pc = "analyse"
    /\ combined_amplitude = 10
    /\ <<stop_at_this_mode, 0 - 5>> \in deformed_pdbs

\* C13 as stated: with a strategy other than slope, maxcc and
\* maxcc_force_move the run fails at startup with a configuration error: no
\* perturbation, rendering or sensitivity analysis is performed, no record
\* is appended, and the run ends with that error and is not retried (the
\* failures of the external tools apart).
C13_InvalidStrategy ==
    (mode_selection \notin Strategies
        /\ error \notin {"CalledProcessError", "RuntimeError"}) =>
        /\ pc \in {"nma", "aborted"}
        /\ deformed_pdbs = {}
        /\ df_pcc = <<>>
        /\ Records = 0
        /\ pc = "aborted" => (error = "ValueError" /\ ~ENABLED Next)

SampledShape(file) == <<file.rows, file.cols>>

\* C14 as stated: the similarity of two images of different sampled shapes
\* (rows x columns) fails with a dimension-mismatch error, also when the two
\* shapes hold the same number of samples; a score is returned only for
\* images of one shape.
C14_DimensionMismatch ==
    pc = "compared" =>
        /\ SampledShape(target) # SampledShape(initial) => cc.status = "ValueError"
        /\ cc.status = "score" => SampledShape(target) = SampledShape(initial)

\* C15 as stated: when the exponential fit of the trajectory analysis does
\* not converge the run still completes normally: the program does not
\* abort, and no decay-based best step is reported.
C15_FitWarning ==
    fit.status = "diverged" =>
        /\ pc = "done"
        /\ error = "none"
        /\ result_step = <<>>

\* the index of the last logged step
LastStep == Records - 1

\* whether u >= ln(0.03) / b + 1 for the rate b (in thousandths, not 0);
\* ln(0.03) = -3.506558
ReachesDecay(u, b) ==
    IF b < 0 THEN (u - 1) * b * 1000 <= 0 - 3506558
    ELSE (u - 1) * b * 1000 >= 0 - 3506558

\* ceil(ln(0.03) / b + 1): the least such u
DecayStep(b) == CHOOSE u \in (0 - 20)..20 : ReachesDecay(u, b) /\ ~ReachesDecay(u - 1, b)

\* C16: the best step the trajectory analysis returns is ceil(ln(0.03)/b + 1)
\* for the fitted rate b, replaced by the index of the last logged step when
\* it exceeds that index; for b = -1 and a log that reaches step 5 it is 5.
C16_BestStep ==
    result_step # <<>> =>
        /\ fit.status = "converged"
        /\ result_step = <<IF DecayStep(fit.b) > LastStep THEN LastStep ELSE DecayStep(fit.b)>>
        /\ (fit.b = 0 - 1000 /\ LastStep >= 5) => result_step = <<5>>

\* the analysis of a log of more than 6 records returned 5 for the rate -1
C16_Witness ==
    /\ pc = "done"
    /\ fit.b = 0 - 1000
    /\ LastStep > 5
    /\ result_step = <<5>>

\* the steps whose record carries a best-step mark
Marked == {k \in 0..(Records - 1) : Len(Record(k)) >= 9 /\ Record(k)[9] # <<>>}

\* C17 as stated: no step of the run changes a record of the log, but for
\* the one that ends the run, which marks the record of the best step.
C17_AppendOnly ==
    [][\A k \in 0..(Records - 1) :
          \/ Record(k)' = Record(k)
          \/ /\ pc' = "done"
             /\ result_step' = <<k>>
             /\ Record(k)' = set_cell(Record(k), 9, <<"s", k>>)]_vars

\* C17 as amended: no step of the run changes a field that a record of the
\* log holds; the RMSD step after the loop fills the distance-to-initial
\* field (column 6) of the records, and a run whose trajectory analysis
\* returned ends with exactly one marked record, that of the best step;
\* before that no record is marked.
C17_FieldsKept ==
    [][/\ Len(sheet') >= Len(sheet)
       /\ \A k \in 0..(Records - 1) :
             /\ Len(Record(k)') >= Len(Record(k))
             /\ \A f \in 1..Len(Record(k)) : f # 9 => Record(k)'[f] = Record(k)[f]
             /\ (Len(Record(k)') > Len(Record(k))) => pc \in {"post", "scoring"}
       /\ pc' = "done" => (Marked' = {result_step'[1]}
                             /\ sheet'[result_step'[1] + 2][9] = <<"s", result_step'[1]>>)
       /\ pc' # "done" => Marked' = {}]_vars

\* a finished run: the RMSD of step 1 is in its record and the record of
\* the best step, which is not the last, is marked
C17_Witness ==
    /\ pc = "done"
    /\ Record(1)[6] = rmsd_calculation(StepName(1))
    /\ result_step # <<LastStep>>
    /\ Marked = {result_step[1]}

\* C18: the analysis of an iteration starts only when the rendering of every
\* perturbed structure of the iteration has completed: while the similarity
\* table is read or used every perturbed structure was given to the pool, no
\* render task is outstanding and none has failed.
C18_RenderBarrier ==
    pc \in {"analyse", "select"} =>
        /\ deformed_pdbs \subseteq pool_tasks.given
        /\ pool_tasks.queued = {}
        /\ returncode = 0

\* the analysis runs on the images of more than four perturbed structures
C18_Witness ==
    /\ pc = "select"
    /\ Cardinality(deformed_pdbs) > 4
    /\ deformed_pdbs \subseteq pool_tasks.given
    /\ pool_tasks.queued = {}

\* the image A of which the compared image is the rescale a * A + c
Unscaled(file, r) ==
    TsvFile(file.rows, file.cols, [k \in DOMAIN file.data |-> (file.data[k] - r.c) \div r.a])

\* C19 as stated: the similarity of a * A + c and B, for a > 0 and any
\* offset c (also one that makes all values negative or the maximum zero),
\* is the similarity of A and B.
C19_AffineInvariance ==
    pc = "compared" =>
        cc = calculation_correlation_pearson_tsv_normalized(target, Unscaled(initial, rescale))

\* C20 as stated: for every mode range with start_mode <= end_mode, a
\* single mode included, and each of the three strategies, the step that
\* follows a completed sensitivity sweep produces one Move, a mode of the
\* range with its amplitude, and hands it to the stop judgement.
C20_OneMove ==
    [][(/\ pc = "select"
        /\ mode_selection \in Strategies
        /\ start_from_this_mode <= stop_at_this_mode)
       => (/\ pc' = "judge"
           /\ error' = "none"
           /\ num_of_largest_mode' \in ModeRange)]_vars

\* the samples the sensitivity table holds for a mode
SamplesOf(mode) == {k \in Rows(df_pcc) : k[1] = mode}

\* C21 as stated: for every amplitude A > 0 and every mode of the range the
\* sensitivity table of the iteration holds exactly five samples of that
\* mode, at five different amplitudes, and the line of the mode is fitted
\* over those five.
C21_FiveSamples ==
    pc = "select" =>
        \A mode \in ModeRange :
            /\ Cardinality(SamplesOf(mode)) = 5
            /\ Cardinality({k[2] : k \in SamplesOf(mode)}) = 5

\* C22: the structure of every iteration after the first is the result of
\* perturbing the structure of the iteration before it by the mode and the
\* amplitude stored in the record of that iteration, the perturbation is
\* requested when that record is in the log, and deformed_times counts the
\* moves applied.
C22_MoveApplied ==
    /\ deformed_times = Len(pdb_files)
    /\ Records >= Len(pdb_files)
    /\ \A k \in 1..Len(pdb_files) :
          /\ pdb_files[k].name = StepName(k)
          /\ pdb_files[k].initial_pdb = Record(k - 1)[1]
          /\ pdb_files[k].initial_pdb = StepName(k - 1)
          /\ pdb_files[k].frequency = Record(k - 1)[3]
          /\ pdb_files[k].amplitude = Record(k - 1)[4]
    /\ pc \in {"nma", "render", "analyse", "select", "judge", "summary", "advance"} =>
          initial_conformation_iter = StepName(Len(pdb_files))

\* the third iteration works on the structure made from the second by the
\* move of the second record
C22_Witness ==
    /\ pc = "judge"
    /\ Len(pdb_files) = 2
    /\ initial_conformation_iter = pdb_files[2].name
    /\ pdb_files[2].initial_pdb = pdb_files[1].name
    /\ pdb_files[2].amplitude = Record(1)[4]

\* C23: under every termination criterion and whatever the similarities are,
\* the loop runs at most iteration_to_stop + 10 iterations: an iteration in
\* progress has an index below that, and the log never holds more records.
C23_BoundedLoop ==
    /\ i <= iteration_to_stop + Slack
    /\ Records <= iteration_to_stop + Slack
    /\ pc \in {"nma", "render", "analyse", "select", "judge", "summary", "advance"} =>
          (i < iteration_to_stop + Slack /\ Records <= i + 1)

\* the loop was left because its range was used up, no iteration having
\* decided to stop
C23_Witness ==
    /\ pc = "post"
    /\ stop_bool
    /\ i = iteration_to_stop + Slack
    /\ Records = iteration_to_stop + Slack

\* C24: under the numeric criterion with budget N the loop is always left by
\* a stop decision and never because its range of N + 10 iterations is used
\* up: no iteration has an index above N, and a run that left the loop holds
\* at most N + 1 records with deformed_times <= N.
C24_SlackUnused ==
    termination_criterion = "numeric" =>
        /\ i <= iteration_to_stop
        /\ deformed_times <= iteration_to_stop
        /\ Records <= iteration_to_stop + 1
        /\ (pc \in {"post", "scoring", "done"} \/ fit.status # "none") =>
              /\ ~stop_bool
              /\ Records = i + 1
              /\ i + 1 < iteration_to_stop + Slack

\* a run that used its whole budget and then left the loop
C24_Witness ==
    /\ termination_criterion = "numeric"
    /\ pc = "post"
    /\ iteration_to_stop = MaxBudget
    /\ deformed_times = iteration_to_stop
    /\ Records = iteration_to_stop + 1

C27_LastMoveUnapplied ==
    (~stop_bool /\ (pc \in {"post", "scoring", "done"} \/ fit.status # "none")) =>
        /\ Cardinality(folders) = Records
        /\ folders = {<<"name", k>> : k \in 0..(Records - 1)}
        /\ Len(pdb_files) = Records - 1
        /\ \A k \in 1..Len(pdb_files) :
              /\ pdb_files[k].initial_pdb # LastRecord[1]
              /\ pdb_files[k].name # filename_of_next_iter(LastRecord[1])
        /\ folder_of_next_iter(work_directory_iter) \notin folders

\* a finished run of several iterations whose last record stores a move
C27_Witness ==
    /\ pc = "done"
    /\ ~stop_bool
    /\ Records >= 3
    /\ LastRecord[4] # 0
    /\ Cardinality(folders) = Records

\* C28 as stated: for every rate b the fit returns, negative, zero or
\* positive, the trajectory analysis returns a best step that is the index
\* of a logged step, and the mark is written to the record of that step.
C28_ValidStep ==
    fit.status = "converged" =>
        /\ result_step # <<>>
        /\ result_step[1] \in 0..LastStep
        /\ Marked = {result_step[1]}

-----------------------------------------------------------------------------
\* the judgement of an iteration with at least 5 preceding records is done
WindowJudged ==
    /\ termination_criterion = "average"
    /\ pc = "summary"
    /\ i >= Window

\* no sum over the records i - 5 .. i is rounded
RECURSIVE AbsSum(_, _)
AbsSum(from, to) ==
    IF from > to THEN 0 ELSE Abs(Record(to)[2]) + AbsSum(from, to - 1)

\* the distance of the floats at the size of the sums of the two windows
WindowQuantum == Quantum(AbsSum(i - Window, i))

\* C29: under the average criterion an iteration k with at least 5 preceding
\* records continues exactly when similarity(k) > similarity(k - 5).
C29_WindowCancels ==
    WindowJudged => (stop_bool <=> Record(i)[2] > Record(i - Window)[2])

\* C29 as amended: under the average criterion an iteration k with at least 5
\* preceding records continues only if similarity(k) > similarity(k - 5), and
\* it continues whenever similarity(k) exceeds similarity(k - 5) by 4 times
\* the distance of the floats at the size of the window sums.
C29_ContinueOnlyIfHigher ==
    WindowJudged =>
        /\ stop_bool => Record(i)[2] > Record(i - Window)[2]
        /\ Record(i)[2] - Record(i - Window)[2] >= 4 * WindowQuantum => stop_bool

\* the judgement stopped an iteration whose similarity is above the one five
\* steps before: the sum of the four records in between absorbed the difference
C29_Witness ==
    /\ WindowJudged
    /\ ~stop_bool
    /\ Record(i)[2] > Record(i - Window)[2]

-----------------------------------------------------------------------------
\* what an earlier run has left stands in the way of a new one, or the name
\* of the initial structure holds '#'
Blocked ==
    \/ sheet # NoLog
    \/ <<"All_conformation">> \in folders
    \/ folder_name(initial_conformation_iter) \in folders
    \/ Len(initial_conformation_iter) > 1

\* C30: a run whose overall log, All_conformation folder or first iteration
\* folder exists, or whose initial structure name holds '#', ends with an
\* error in the checks, before a folder or the log is made or changed, and
\* does nothing afterwards; an overall log that exists is never written.
C30_RefusesToStart ==
    [][/\ pc # "aborted"
       /\ (pc = "check" /\ Blocked) =>
              /\ pc' = "aborted"
              /\ error' \in {"SystemExit", "FileExistsError", "ValueError"}
              /\ UNCHANGED <<folders, sheet, pdb_files>>
       /\ sheet # NoLog => sheet' = sheet]_vars

\* the checks ended a run that found an overall log with records and nothing
\* else from an earlier run: the log and the folders are as they were
C30_Witness ==
    /\ pc = "aborted"
    /\ error = "FileExistsError"
    /\ Len(sheet) > 1
    /\ folders = {}
    /\ initial_conformation_iter = <<"name">>
    /\ work_directory_iter = <<>>

=============================================================================
